---- MODULE Spec2Model ----
(***************************************************************************)
(* Model of the server actions of smart-document-bot                       *)
(* (src/src/app/actions.ts, src/src/lib/langchain.ts).                      *)
(*                                                                         *)
(* Strings are sequences.  Document text is a sequence of characters drawn *)
(* from "a" (an ordinary character), " " (white space) and "\n" (a line    *)
(* terminator).  Messages (error messages, returned strings) are sequences *)
(* of tokens; String.prototype.includes is evaluated on tokens.            *)
(***************************************************************************)
EXTENDS Integers, Sequences, FiniteSets, TLC

\* ------------------------------------------------------------------ bounds
NumUploads == 2
NumChats == 1
MaxParserEvents == 2

Uploads == 1..NumUploads
Chats == 1..NumChats

\* ------------------------------------------------------- program constants
ChunkSize == 1000
MaxChunks == 50
TopK == 3

\* --------------------------------------------------------- string helpers
Includes(msg, w) == \E i \in 1..Len(msg) : msg[i] = w

IsWhite(c) == c \in {" ", "\n"}

IsLineTerminator(c) == c = "\n"

\* s.trim().length === 0
IsBlank(s) == \A i \in 1..Len(s) : IsWhite(s[i])

\* s.trim()
Trim(s) ==
    IF IsBlank(s) THEN <<>>
    ELSE LET first == CHOOSE i \in 1..Len(s) :
                          /\ ~IsWhite(s[i])
                          /\ \A j \in 1..(i - 1) : IsWhite(s[j])
             last == CHOOSE i \in 1..Len(s) :
                          /\ ~IsWhite(s[i])
                          /\ \A j \in (i + 1)..Len(s) : IsWhite(s[j])
         IN SubSeq(s, first, last)

RECURSIVE Concat(_)
Concat(ss) == IF ss = <<>> THEN <<>> ELSE Head(ss) \o Concat(Tail(ss))

IsPrefix(p, s) == Len(p) <= Len(s) /\ SubSeq(s, 1, Len(p)) = p

Min(a, b) == IF a <= b THEN a ELSE b

\* ------------------------------------------------------------- completions
Return(v) == [kind |-> "return", val |-> v]

Throw(v) == [kind |-> "throw", val |-> v]

Pending == [kind |-> "pending", val |-> <<>>]

\* --------------------------------------------------------------- messages
NoFileMsg == <<"No file provided">>

SuccessMsg == <<"Document uploaded and processed successfully!">>

GuidanceMsg == <<"Please upload a document first.">>

EmptyPdfMsg == <<"PDF appears to be empty or contains no extractable text">>

EmptyDocxMsg == <<"DOCX appears to be empty or contains no extractable text">>

TimeoutMsg == <<"PDF parsing", "timeout", "- the file may be too large or corrupted">>

EncryptedMsg == <<"This PDF appears to be password-protected or encrypted. Please remove the password and try again.">>

CorruptPrefix == <<"Failed to parse PDF. The file may be corrupted or in an unsupported format:">>

DocxPrefix == <<"Failed to parse DOCX file:">>

UnsupportedMsg == <<"Unsupported file type">>

ParserErrorPrefix == <<"PDF parsing error:">>

ExtractFailPrefix == <<"Failed to extract text from document:">>

ProcessFailPrefix == <<"Failed to process document:">>

XRefFallbackMsg(errorMessage, fallbackErrorMsg) ==
    <<"PDF parsing failed due to file structure issues (bad", "XRef", "entry).",
      "This may happen with certain PDF formats.",
      "Please try: 1) Re-saving the PDF in a different application,",
      "2) Converting to DOCX or TXT format, or 3) Using a different PDF file.",
      "Technical details:">> \o errorMessage \o <<". Fallback error:">>
      \o fallbackErrorMsg

\* ------------------------------------------------------------------ inputs
NoFile == "none"

PdfType == "application/pdf"

TextType == "text/plain"

DocxType == "application/vnd.openxmlformats-officedocument.wordprocessingml.document"

OtherType == "image/png"

FileTypes == {PdfType, TextType, DocxType, OtherType}

\* texts a parser or the UTF-8 decoder can produce
Texts == { <<>>, <<" ">>, <<"\n">>, <<"a">>, <<"a", "\n", "a">>, <<" ", "a", "a">> }

\* messages of the errors the primary PDF parser (pdf-parse) can raise
PrimaryErrors ==
    { <<"bad", "XRef", "entry">>,
      <<"Invalid", "xref", "table">>,
      <<"No", "password", "given">>,
      <<"file is", "encrypted">>,
      <<"encrypted", "XRef", "stream">>,
      <<"Invalid PDF structure">> }

\* outcome of `await pdf(buffer)`: pdfData.text or a rejection
PrimaryOutcomes == { Return(t) : t \in Texts } \cup { Throw(e) : e \in PrimaryErrors }

\* outcome of `await mammoth.extractRawText({ buffer })`
MammothOutcomes == { Return(t) : t \in Texts } \cup { Throw(<<"Could not find file in options">>) }

\* pdfData handed to the pdfParser_dataReady listener; a run's T is a sequence
\* of characters in which "%20" is an escaped space and "%" a malformed escape
ReadyData ==
    { [isNull |-> TRUE, hasPages |-> FALSE, Pages |-> <<>>],
      [isNull |-> FALSE, hasPages |-> FALSE, Pages |-> <<>>],
      [isNull |-> FALSE, hasPages |-> TRUE,
       Pages |-> << [hasTexts |-> TRUE, Texts |-> << <<>>, <<"%20">> >>] >>],
      [isNull |-> FALSE, hasPages |-> TRUE,
       Pages |-> << [hasTexts |-> TRUE, Texts |-> << <<"a", "%20", "a">> >>],
                    [hasTexts |-> FALSE, Texts |-> <<>>] >>],
      [isNull |-> FALSE, hasPages |-> TRUE,
       Pages |-> << [hasTexts |-> TRUE, Texts |-> << <<"a">>, <<"%", "a">> >>],
                    [hasTexts |-> TRUE, Texts |-> << <<"a">> >>] >>] }

ParserErrors == { <<"Invalid PDF">> }

Questions == { <<"q1">>, <<>> }

\* ------------------------------------------------------------ extractText
\* try block of the primary path: pdfData.text, or the thrown Error's message
PrimaryTry(out) ==
    IF out.kind = "throw" THEN Throw(out.val)
    ELSE IF out.val = <<>> \/ IsBlank(out.val) THEN Throw(EmptyPdfMsg)
    ELSE Return(out.val)

\* the branch the catch block of the primary path takes for errorMessage
PrimaryCatch(errorMessage) ==
    IF Includes(errorMessage, "XRef") \/ Includes(errorMessage, "xref")
    THEN [kind |-> "fallback", val |-> errorMessage]
    ELSE IF Includes(errorMessage, "password") \/ Includes(errorMessage, "encrypted")
    THEN Throw(EncryptedMsg)
    ELSE Throw(CorruptPrefix \o errorMessage)

\* decodeURIComponent throws URIError on a malformed escape
Malformed(run) == \E i \in 1..Len(run) : run[i] = "%"

DecodeURIComponent(run) == [i \in 1..Len(run) |-> IF run[i] = "%20" THEN " " ELSE run[i]]

\* text appended for one run: decoded, or as-is when decoding throws
RunText(run) ==
    IF run = <<>> THEN <<>>
    ELSE (IF Malformed(run) THEN run ELSE DecodeURIComponent(run)) \o <<" ">>

PageText(page) ==
    IF page.hasTexts
    THEN Concat([i \in 1..Len(page.Texts) |-> RunText(page.Texts[i])]) \o <<"\n">>
    ELSE <<>>

FullText(pdfData) ==
    IF pdfData.hasPages
    THEN Concat([i \in 1..Len(pdfData.Pages) |-> PageText(pdfData.Pages[i])])
    ELSE <<>>

\* what the pdfParser_dataReady listener passes to resolve or reject
DataReady(pdfData) ==
    IF pdfData.isNull
    THEN Throw(<<"Failed to extract text from PDF:", "Cannot read properties of null">>)
    ELSE IF FullText(pdfData) = <<>> \/ IsBlank(FullText(pdfData))
    THEN Throw(EmptyPdfMsg)
    ELSE Return(Trim(FullText(pdfData)))

\* what the pdfParser_dataError listener passes to reject
DataError(parserError) == Throw(ParserErrorPrefix \o parserError)

\* a settled promise ignores later resolve and reject calls
Settle(promise, completion) ==
    IF promise.kind = "pending" THEN completion ELSE promise

\* clearTimeout(timeout)
ClearTimeout(timer) == IF timer = "armed" THEN "cleared" ELSE timer

\* DOCX branch: try block and its catch
MammothTry(out) ==
    IF out.kind = "throw" THEN Throw(out.val)
    ELSE IF out.val = <<>> \/ IsBlank(out.val) THEN Throw(EmptyDocxMsg)
    ELSE Return(out.val)

MammothCatch(c) == IF c.kind = "throw" THEN Throw(DocxPrefix \o c.val) ELSE c

\* ------------------------------------------------------- handlePdfUpload
\* variant: the extraction error is rethrown instead of returned
ExtractRethrow(errorMessage) == Throw(ExtractFailPrefix \o errorMessage)

\* catch block around `text = await extractText(file)`
ExtractCatch(errorMessage) == Return(ExtractFailPrefix \o errorMessage)

\* catch block around agent creation and the vector store build
ProcessCatch(errorMessage) == Return(ProcessFailPrefix \o errorMessage)

\* length of the match of /.{1,1000}/ starting at position i: the characters
\* up to the next line terminator, at most 1000 of them
MatchLen(text, i) ==
    LET lim == Min(ChunkSize, Len(text) - i + 1)
        stops == { k \in 0..(lim - 1) : IsLineTerminator(text[i + k]) }
    IN IF stops = {} THEN lim
       ELSE CHOOSE k \in stops : \A j \in stops : k <= j

\* text.match(/.{1,1000}/g) || [] scanning from position i
RECURSIVE MatchAll(_, _)
MatchAll(text, i) ==
    IF i > Len(text) THEN <<>>
    ELSE LET n == MatchLen(text, i)
         IN IF n = 0 THEN MatchAll(text, i + 1)
            ELSE <<SubSeq(text, i, i + n - 1)>> \o MatchAll(text, i + n)

AllChunks(text) == MatchAll(text, 1)

\* variant: the chunk limit is not applied
LimitChunksOff(allChunks) == allChunks

\* allChunks.length > 50 ? allChunks.slice(0, 50) : allChunks
LimitChunks(allChunks) ==
    IF Len(allChunks) > MaxChunks THEN SubSeq(allChunks, 1, MaxChunks) ELSE allChunks

\* documents MemoryVectorStore.fromTexts receives: chunk i with metadata {id: i}
StoreDocs(chunks) ==
    [i \in 1..Len(chunks) |-> [pageContent |-> chunks[i], id |-> i - 1]]

NoStore == [owner |-> 0, docs |-> <<>>]

EmptyCache == [vectorStore |-> NoStore, chain |-> 0, embeddings |-> 0, llm |-> 0]

\* variant: a populated cache is kept (first writer wins)
CacheKeepFirst(cache, u, chunks) ==
    IF cache.vectorStore.owner # 0 THEN cache
    ELSE [vectorStore |-> [owner |-> u, docs |-> StoreDocs(chunks)],
          chain |-> u, embeddings |-> u, llm |-> u]

\* sessionCache = { vectorStore, chain, embeddings, llm }
CacheAfterUpload(cache, u, chunks) ==
    [vectorStore |-> [owner |-> u, docs |-> StoreDocs(chunks)],
     chain |-> u, embeddings |-> u, llm |-> u]

\* the continuation the job queue runs next
NextJob(queue) == Head(queue)

\* ------------------------------------------------------------ chatWithBot
\* values the model collaborator can resolve to.  t is the JavaScript type of
\* the response; content is the value of its content property
StrContent(s) == [t |-> "string", s |-> s, parts |-> <<>>]

ArrContent(parts) == [t |-> "array", s |-> <<>>, parts |-> parts]

OtherContent(t) == [t |-> t, s |-> <<>>, parts |-> <<>>]

StrResponse(s) == [t |-> "string", s |-> s, content |-> OtherContent("undefined")]

ObjResponse(content) == [t |-> "object", s |-> <<>>, content |-> content]

NullResponse == [t |-> "null", s |-> <<>>, content |-> OtherContent("undefined")]

UndefinedResponse == [t |-> "undefined", s |-> <<>>, content |-> OtherContent("undefined")]

\* parts of an array content: a string, an object with a text field, an
\* object without one, null
StrPart(s) == [t |-> "string", s |-> s]

TextPart(s) == [t |-> "text", s |-> s]

ImagePart == [t |-> "image", s |-> <<>>]

NullPart == [t |-> "null", s |-> <<>>]

Responses ==
    { StrResponse(<<"hi">>),
      StrResponse(<<>>),
      ObjResponse(StrContent(<<"hi">>)),
      ObjResponse(StrContent(<<>>)),
      ObjResponse(ArrContent(<< StrPart(<<"a">>), ImagePart, TextPart(<<"b">>), NullPart >>)),
      ObjResponse(ArrContent(<< ImagePart, NullPart >>)),
      ObjResponse(ArrContent(<<>>)),
      ObjResponse(OtherContent("undefined")),
      ObjResponse(OtherContent("null")),
      ObjResponse(OtherContent("number")),
      NullResponse,
      UndefinedResponse }

\* String(content) for a content that is neither a string nor an array
StringOf(content) ==
    CASE content.t = "undefined" -> <<"undefined">>
      [] content.t = "null" -> <<"null">>
      [] content.t = "number" -> <<"0">>
      [] OTHER -> <<"[object Object]">>

PartJSON(part) ==
    CASE part.t = "string" -> <<"\"">> \o part.s \o <<"\"">>
      [] part.t = "text" -> <<"{\"text\":\"">> \o part.s \o <<"\"}">>
      [] part.t = "image" -> <<"{\"type\":\"image_url\"}">>
      [] OTHER -> <<"null">>

ContentJSON(content) ==
    CASE content.t = "string" -> <<"\"">> \o content.s \o <<"\"">>
      [] content.t = "array" ->
            <<"[">> \o Concat([i \in 1..Len(content.parts) |-> PartJSON(content.parts[i])])
                    \o <<"]">>
      [] content.t = "null" -> <<"null">>
      [] content.t = "number" -> <<"0">>
      [] OTHER -> <<>>

\* JSON.stringify(response) for an object response (an undefined content is
\* left out)
JSONStringify(response) ==
    IF response.content.t = "undefined" THEN <<"{}">>
    ELSE <<"{\"content\":">> \o ContentJSON(response.content) \o <<"}">>

\* variant: only string parts are kept
PartStringOnlyStrings(part) == IF part.t = "string" THEN part.s ELSE <<>>

\* the callback of content.map
PartString(part) ==
    IF part.t = "string" THEN part.s
    ELSE IF part.t = "text" THEN part.s
    ELSE <<>>

\* the normalisation of the model response into the returned answer
Normalize(response) ==
    IF response.t = "string" THEN Return(response.s)
    ELSE IF response.t \in {"null", "undefined"}
    THEN Throw(<<"TypeError: Cannot read properties of", response.t>>)
    ELSE LET content == response.content
         IN IF content.t = "string" THEN Return(content.s)
            ELSE IF content.t = "array"
            THEN Return(Concat([i \in 1..Len(content.parts) |-> PartString(content.parts[i])]))
            ELSE IF StringOf(content) # <<>> THEN Return(StringOf(content))
            ELSE Return(JSONStringify(response))

\* rejections of the collaborators, which chatWithBot lets through
RetrievalError == <<"retrieval failed">>

ModelError == <<"model request failed">>

\* the vector (in tenths) the embeddings of createGroqAgent give every text:
\* they are fake embeddings, which do not look at the text
FakeVector == <<1, 2, 3, 4>>

Embed(text) == FakeVector

\* similarity of two embeddings of equal norm: their dot product
Similarity(a, b) == a[1] * b[1] + a[2] * b[2] + a[3] * b[3] + a[4] * b[4]

\* document i ranks before document j for the message: it is more similar, or
\* equally similar and earlier in the store
RanksBefore(docs, message, i, j) ==
    LET si == Similarity(Embed(docs[i].pageContent), Embed(message))
        sj == Similarity(Embed(docs[j].pageContent), Embed(message))
    IN si > sj \/ (si = sj /\ i < j)

RankOf(docs, message, i) ==
    1 + Cardinality({ j \in 1..Len(docs) : RanksBefore(docs, message, j, i) })

\* variant: the retriever is not given a limit
RetrieveAll(store, message) ==
    [p \in 1..Len(store.docs) |->
        store.docs[CHOOSE i \in 1..Len(store.docs) : RankOf(store.docs, message, i) = p]]

\* vectorStore.asRetriever(3).getRelevantDocuments(message): the TopK best
\* ranking documents of the store, best first
Retrieve(store, message) ==
    [p \in 1..Min(TopK, Len(store.docs)) |->
        store.docs[CHOOSE i \in 1..Len(store.docs) : RankOf(store.docs, message, i) = p]]

NoYield == [by |-> "none", blank |-> FALSE]

\* a parser or decoder produced text
Yield(by, text) == [by |-> by, blank |-> IsBlank(text)]

\* ------------------------------------------------------------------- page
\* ChatInterface instances mounted in a run, and messages one of them shows
MaxMounts == 2

MaxMessages == 5

Instances == 1..MaxMounts

\* 10 * 1024 * 1024
MaxFileSize == 10485760

\* files the user can select or drop
Files == {"a.pdf", "b.txt", "c.png", "d.pdf"}

FileType(file) ==
    CASE file = "a.pdf" -> PdfType
      [] file = "b.txt" -> TextType
      [] file = "c.png" -> OtherType
      [] file = "d.pdf" -> PdfType

FileSize(file) ==
    CASE file = "a.pdf" -> MaxFileSize
      [] file = "b.txt" -> 1024
      [] file = "c.png" -> 1024
      [] file = "d.pdf" -> MaxFileSize + 1

AllowedTypes == {PdfType, TextType, DocxType}

\* uploadError null: nothing is shown
NoError == <<>>

ProcessFallbackMsg == <<"Failed to process document">>

UploadFailedMsg == <<"Failed to upload document. Please try again.">>

ApologyMsg == <<"Sorry, there was an error processing your question. Please try again.">>

\* the first message of a ChatInterface
Greeting(document) ==
    [role |-> "assistant",
     content |-> <<"I've analyzed your document", document,
                   "I'm ready to answer any questions you have about it.">>]

\* what a typed input can hold
Inputs == { <<>>, <<" ">>, <<"a">> }

\* completions of handlePdfUpload and chatWithBot as the page sees them
UploadOutcomes ==
    { Return(SuccessMsg), Return(NoFileMsg), ProcessCatch(<<"embedding failed">>),
      Throw(<<"network">>) }

ChatOutcomes == { Return(<<"answer">>), Return(GuidanceMsg), Throw(ModelError) }

\* ------------------------------------------------------------------ state
VARIABLES
    sessionCache,  \* the module-level cache
    jobs,          \* continuations waiting in the job queue, oldest first
    buildOrder,    \* uploads whose vector store build succeeded, in order
    upPc,          \* position of each handlePdfUpload call
    upType,        \* file.type of the call's file
    upErr,         \* message of the error pdf-parse raised
    upYield,       \* which parser produced text, and whether it was blank
    upText,        \* text returned by extractText
    upChunks,      \* chunks passed to MemoryVectorStore.fromTexts
    upResult,      \* completion of the call
    upWrote,       \* the call has assigned sessionCache
    fbTimer,       \* the fallback's 30 second timer
    fbPromise,     \* the promise the fallback returns
    fbEvents,      \* events the fallback parser has emitted
    chPc,          \* position of each chatWithBot call
    chStore,       \* vectorStore the call took from sessionCache
    chLlm,         \* llm the call took from sessionCache
    chMessage,     \* the message the call was given
    chDocs,        \* documents retrieved
    chResponse,    \* what llm.invoke resolved to
    chCalls,       \* collaborator calls the call has made (retrieval, model)
    chResult       \* completion of the call

\* the state of the page
VARIABLES
    uploadedDocument,  \* Home: the document handed up by DocumentUpload
    chatStarted,       \* Home: the chat screen is shown
    uploadedFile,      \* DocumentUpload: the selected file
    isUploading,       \* DocumentUpload: a handlePdfUpload call is awaited
    uploadError,       \* DocumentUpload: the error shown
    formFile,          \* the file in the form data of the awaited handlePdfUpload call
    startedBy,         \* the file of the call whose success string started the chat
    messages,          \* ChatInterface: the messages shown
    inputValue,        \* ChatInterface: the text in the input
    isLoading,         \* ChatInterface: a chatWithBot call is awaited
    chatInstance,      \* number of ChatInterface instances mounted so far
    pendingChats       \* chatWithBot calls in flight, per ChatInterface instance

upVars == <<upPc, upType, upErr, upYield, upText, upChunks, upResult, upWrote>>

fbVars == <<fbTimer, fbPromise, fbEvents>>

chVars == <<chPc, chMessage, chStore, chLlm, chDocs, chResponse, chCalls, chResult>>

uiVars == <<uploadedDocument, chatStarted, uploadedFile, isUploading, uploadError,
            formFile, startedBy, messages, inputValue, isLoading, chatInstance,
            pendingChats>>

serverVars == <<sessionCache, jobs, buildOrder, upVars, fbVars, chVars>>

vars == <<serverVars, uiVars>>

Init ==
    /\ sessionCache = EmptyCache
    /\ jobs = <<>>
    /\ buildOrder = <<>>
    /\ upPc = [u \in Uploads |-> "idle"]
    /\ upType = [u \in Uploads |-> NoFile]
    /\ upErr = [u \in Uploads |-> <<>>]
    /\ upYield = [u \in Uploads |-> NoYield]
    /\ upText = [u \in Uploads |-> <<>>]
    /\ upChunks = [u \in Uploads |-> <<>>]
    /\ upResult = [u \in Uploads |-> Pending]
    /\ upWrote = [u \in Uploads |-> FALSE]
    /\ fbTimer = [u \in Uploads |-> "none"]
    /\ fbPromise = [u \in Uploads |-> Pending]
    /\ fbEvents = [u \in Uploads |-> 0]
    /\ chPc = [c \in Chats |-> "idle"]
    /\ chStore = [c \in Chats |-> NoStore]
    /\ chLlm = [c \in Chats |-> 0]
    /\ chMessage = [c \in Chats |-> <<>>]
    /\ chDocs = [c \in Chats |-> <<>>]
    /\ chResponse = [c \in Chats |-> UndefinedResponse]
    /\ chCalls = [c \in Chats |-> 0]
    /\ chResult = [c \in Chats |-> Pending]
    /\ uploadedDocument = NoFile
    /\ chatStarted = FALSE
    /\ uploadedFile = NoFile
    /\ isUploading = FALSE
    /\ uploadError = NoError
    /\ formFile = NoFile
    /\ startedBy = NoFile
    /\ messages = <<>>
    /\ inputValue = <<>>
    /\ isLoading = FALSE
    /\ chatInstance = 0
    /\ pendingChats = [i \in Instances |-> 0]

\* ---------------------------------------------------------------- uploads
\* handlePdfUpload from the settlement c of `await extractText(file)` up to the
\* call of createGroqAgent
AfterExtract(u, c) ==
    IF c.kind = "throw"
    THEN /\ upResult' = [upResult EXCEPT ![u] = ExtractCatch(c.val)]
         /\ upPc' = [upPc EXCEPT ![u] = "done"]
         /\ UNCHANGED <<upText, upChunks>>
    ELSE /\ upText' = [upText EXCEPT ![u] = c.val]
         /\ upChunks' = [upChunks EXCEPT ![u] = LimitChunks(AllChunks(c.val))]
         /\ upPc' = [upPc EXCEPT ![u] = "createAgent"]
         /\ UNCHANGED upResult

\* a request arrives: formData.get("file") and the call of extractText
StartUpload(u, file) ==
    /\ upPc[u] = "idle"
    /\ jobs = <<>>
    /\ IF file = NoFile
       THEN /\ upResult' = [upResult EXCEPT ![u] = Return(NoFileMsg)]
            /\ upPc' = [upPc EXCEPT ![u] = "done"]
            /\ UNCHANGED upType
       ELSE /\ upType' = [upType EXCEPT ![u] = file]
            /\ upPc' = [upPc EXCEPT ![u] = "extract"]
            /\ UNCHANGED upResult
    /\ UNCHANGED <<sessionCache, jobs, buildOrder, upErr, upYield, upText, upChunks,
                   upWrote, fbVars, chVars>>
    /\ UNCHANGED uiVars

\* text/plain: buffer.toString("utf-8")
ExtractPlain(u, text) ==
    /\ upPc[u] = "extract"
    /\ upType[u] = TextType
    /\ jobs = <<>>
    /\ AfterExtract(u, Return(text))
    /\ upYield' = [upYield EXCEPT ![u] = Yield("decoder", text)]
    /\ UNCHANGED <<sessionCache, jobs, buildOrder, upType, upErr, upWrote, fbVars, chVars>>
    /\ UNCHANGED uiVars

\* DOCX: mammoth.extractRawText settles
ExtractDocx(u, out) ==
    /\ upPc[u] = "extract"
    /\ upType[u] = DocxType
    /\ jobs = <<>>
    /\ AfterExtract(u, MammothCatch(MammothTry(out)))
    /\ upYield' = [upYield EXCEPT ![u] = IF out.kind = "return"
                                         THEN Yield("mammoth", out.val) ELSE @]
    /\ UNCHANGED <<sessionCache, jobs, buildOrder, upType, upErr, upWrote, fbVars, chVars>>
    /\ UNCHANGED uiVars

\* variant: a file of any other type is decoded as plain text
ExtractUnsupportedAsText(u) ==
    /\ upPc[u] = "extract"
    /\ upType[u] \notin {PdfType, TextType, DocxType}
    /\ jobs = <<>>
    /\ AfterExtract(u, Return(<<"a">>))
    /\ upYield' = [upYield EXCEPT ![u] = Yield("decoder", <<"a">>)]
    /\ UNCHANGED <<sessionCache, jobs, buildOrder, upType, upErr, upWrote, fbVars, chVars>>
    /\ UNCHANGED uiVars

\* any other file.type
ExtractUnsupported(u) ==
    /\ upPc[u] = "extract"
    /\ upType[u] \notin {PdfType, TextType, DocxType}
    /\ jobs = <<>>
    /\ AfterExtract(u, Throw(UnsupportedMsg))
    /\ UNCHANGED <<sessionCache, jobs, buildOrder, upType, upErr, upYield, upWrote, fbVars,
                   chVars>>
    /\ UNCHANGED uiVars

\* PDF: pdf-parse settles with out; on an XRef error the fallback parser is
\* set up, which fails at once when ctorThrows (require or the constructor)
PdfParse(u, out, ctorThrows) ==
    /\ upPc[u] = "extract"
    /\ upType[u] = PdfType
    /\ jobs = <<>>
    /\ upYield' = [upYield EXCEPT ![u] = IF out.kind = "return"
                                         THEN Yield("primary", out.val) ELSE @]
    /\ upErr' = [upErr EXCEPT ![u] = IF out.kind = "throw" THEN out.val ELSE @]
    /\ LET c == PrimaryTry(out)
           d == PrimaryCatch(c.val)
       IN IF c.kind = "return"
          THEN /\ AfterExtract(u, c)
               /\ UNCHANGED fbTimer
          ELSE IF d.kind # "fallback"
          THEN /\ AfterExtract(u, d)
               /\ UNCHANGED fbTimer
          ELSE IF ctorThrows
          THEN /\ AfterExtract(u, Throw(XRefFallbackMsg(c.val, <<"Cannot find module 'pdf2json'">>)))
               /\ UNCHANGED fbTimer
          ELSE /\ upPc' = [upPc EXCEPT ![u] = "fallback"]
               /\ fbTimer' = [fbTimer EXCEPT ![u] = "armed"]
               /\ UNCHANGED <<upText, upChunks, upResult>>
    /\ UNCHANGED <<sessionCache, jobs, buildOrder, upType, upWrote, fbPromise, fbEvents,
                   chVars>>
    /\ UNCHANGED uiVars

\* variant: every completion is acted on, as with a bare callback
FallbackSettleAlways(u, c) ==
    /\ fbPromise' = [fbPromise EXCEPT ![u] = c]
    /\ AfterExtract(u, c)

\* the fallback promise is passed completion c; when that settles it,
\* handlePdfUpload continues
FallbackSettle(u, c) ==
    /\ fbPromise' = [fbPromise EXCEPT ![u] = Settle(fbPromise[u], c)]
    /\ IF fbPromise[u].kind = "pending"
       THEN AfterExtract(u, c)
       ELSE UNCHANGED <<upPc, upText, upChunks, upResult>>

\* pdf2json emits pdfParser_dataReady
ParserDataReady(u, pdfData) ==
    /\ fbTimer[u] # "none"
    /\ fbEvents[u] < MaxParserEvents
    /\ jobs = <<>>
    /\ fbEvents' = [fbEvents EXCEPT ![u] = @ + 1]
    /\ fbTimer' = [fbTimer EXCEPT ![u] = ClearTimeout(@)]
    /\ FallbackSettle(u, DataReady(pdfData))
    /\ upYield' = [upYield EXCEPT ![u] = IF fbPromise[u].kind = "pending" /\ ~pdfData.isNull
                                         THEN Yield("fallback", FullText(pdfData)) ELSE @]
    /\ UNCHANGED <<sessionCache, jobs, buildOrder, upType, upErr, upWrote, chVars>>
    /\ UNCHANGED uiVars

\* pdf2json emits pdfParser_dataError
ParserDataError(u, parserError) ==
    /\ fbTimer[u] # "none"
    /\ fbEvents[u] < MaxParserEvents
    /\ jobs = <<>>
    /\ fbEvents' = [fbEvents EXCEPT ![u] = @ + 1]
    /\ fbTimer' = [fbTimer EXCEPT ![u] = ClearTimeout(@)]
    /\ FallbackSettle(u, DataError(parserError))
    /\ UNCHANGED <<sessionCache, jobs, buildOrder, upType, upErr, upYield, upWrote, chVars>>
    /\ UNCHANGED uiVars

\* the 30 second timer of the fallback fires
TimerFire(u) ==
    /\ fbTimer[u] = "armed"
    /\ jobs = <<>>
    /\ fbTimer' = [fbTimer EXCEPT ![u] = "fired"]
    /\ FallbackSettle(u, Throw(TimeoutMsg))
    /\ UNCHANGED <<sessionCache, jobs, buildOrder, upType, upErr, upYield, upWrote,
                   fbEvents, chVars>>
    /\ UNCHANGED uiVars

\* `await createGroqAgent()` settles; on success fromTexts is called
AgentSettle(u, ok) ==
    /\ upPc[u] = "createAgent"
    /\ IF ok
       THEN /\ upPc' = [upPc EXCEPT ![u] = "buildStore"]
            /\ UNCHANGED upResult
       ELSE /\ upPc' = [upPc EXCEPT ![u] = "done"]
            /\ upResult' = [upResult EXCEPT ![u] = ProcessCatch(<<"Groq API key not found">>)]
    /\ UNCHANGED <<sessionCache, jobs, buildOrder, upType, upErr, upYield, upText,
                   upChunks, upWrote, fbVars, chVars>>
    /\ UNCHANGED uiVars

\* MemoryVectorStore.fromTexts settles; the rest of handlePdfUpload is queued
BuildSettle(u, ok) ==
    /\ upPc[u] = "buildStore"
    /\ upPc' = [upPc EXCEPT ![u] = "queued"]
    /\ jobs' = Append(jobs, [u |-> u, ok |-> ok])
    /\ buildOrder' = IF ok THEN Append(buildOrder, u) ELSE buildOrder
    /\ UNCHANGED <<sessionCache, upType, upErr, upYield, upText, upChunks, upResult,
                   upWrote, fbVars, chVars>>
    /\ UNCHANGED uiVars

\* variant: the catch block resets the session
RunJobClearsOnFailure ==
    /\ jobs # <<>>
    /\ LET j == NextJob(jobs)
       IN /\ jobs' = SelectSeq(jobs, LAMBDA x : x # j)
          /\ upPc' = [upPc EXCEPT ![j.u] = "done"]
          /\ IF j.ok
             THEN /\ sessionCache' = CacheAfterUpload(sessionCache, j.u, upChunks[j.u])
                  /\ upWrote' = [upWrote EXCEPT ![j.u] = TRUE]
                  /\ upResult' = [upResult EXCEPT ![j.u] = Return(SuccessMsg)]
             ELSE /\ upResult' = [upResult EXCEPT ![j.u] = ProcessCatch(<<"embedding failed">>)]
                  /\ sessionCache' = EmptyCache
                  /\ UNCHANGED upWrote
    /\ UNCHANGED <<buildOrder, upType, upErr, upYield, upText, upChunks, fbVars, chVars>>
    /\ UNCHANGED uiVars

\* the queued rest of handlePdfUpload runs: the assignment of sessionCache and
\* the return, or the catch block
RunJob ==
    /\ jobs # <<>>
    /\ LET j == NextJob(jobs)
       IN /\ jobs' = SelectSeq(jobs, LAMBDA x : x # j)
          /\ upPc' = [upPc EXCEPT ![j.u] = "done"]
          /\ IF j.ok
             THEN /\ sessionCache' = CacheAfterUpload(sessionCache, j.u, upChunks[j.u])
                  /\ upWrote' = [upWrote EXCEPT ![j.u] = TRUE]
                  /\ upResult' = [upResult EXCEPT ![j.u] = Return(SuccessMsg)]
             ELSE /\ upResult' = [upResult EXCEPT ![j.u] = ProcessCatch(<<"embedding failed">>)]
                  /\ UNCHANGED <<sessionCache, upWrote>>
    /\ UNCHANGED <<buildOrder, upType, upErr, upYield, upText, upChunks, fbVars, chVars>>
    /\ UNCHANGED uiVars

\* ------------------------------------------------------------------ chats
\* variant: the guard is left out
CacheEmptyNoGuard(cache) == FALSE

\* !sessionCache.vectorStore || !sessionCache.llm
CacheEmpty(cache) == cache.vectorStore.owner = 0 \/ cache.llm = 0

\* a chat request arrives: the guard, the read of sessionCache and the call
\* of the retriever
StartChat(c, message) ==
    /\ chPc[c] = "idle"
    /\ jobs = <<>>
    /\ chMessage' = [chMessage EXCEPT ![c] = message]
    /\ IF CacheEmpty(sessionCache)
       THEN /\ chResult' = [chResult EXCEPT ![c] = Return(GuidanceMsg)]
            /\ chPc' = [chPc EXCEPT ![c] = "done"]
            /\ UNCHANGED <<chStore, chLlm, chCalls>>
       ELSE /\ chStore' = [chStore EXCEPT ![c] = sessionCache.vectorStore]
            /\ chLlm' = [chLlm EXCEPT ![c] = sessionCache.llm]
            /\ chCalls' = [chCalls EXCEPT ![c] = 1]
            /\ chPc' = [chPc EXCEPT ![c] = "retrieving"]
            /\ UNCHANGED chResult
    /\ UNCHANGED <<sessionCache, jobs, buildOrder, upVars, fbVars, chDocs, chResponse>>
    /\ UNCHANGED uiVars

\* variant: the retriever is taken from sessionCache when retrieval settles
RetrieveSettleLate(c, ok) ==
    /\ chPc[c] = "retrieving"
    /\ jobs = <<>>
    /\ IF ok
       THEN /\ chDocs' = [chDocs EXCEPT ![c] = Retrieve(sessionCache.vectorStore, chMessage[c])]
            /\ chCalls' = [chCalls EXCEPT ![c] = 2]
            /\ chPc' = [chPc EXCEPT ![c] = "invoking"]
            /\ UNCHANGED chResult
       ELSE /\ chResult' = [chResult EXCEPT ![c] = Throw(RetrievalError)]
            /\ chPc' = [chPc EXCEPT ![c] = "done"]
            /\ UNCHANGED <<chDocs, chCalls>>
    /\ UNCHANGED <<sessionCache, jobs, buildOrder, upVars, fbVars, chMessage, chStore,
                   chLlm, chResponse>>
    /\ UNCHANGED uiVars

\* getRelevantDocuments settles; on success llm.invoke is called
RetrieveSettle(c, ok) ==
    /\ chPc[c] = "retrieving"
    /\ jobs = <<>>
    /\ IF ok
       THEN /\ chDocs' = [chDocs EXCEPT ![c] = Retrieve(chStore[c], chMessage[c])]
            /\ chCalls' = [chCalls EXCEPT ![c] = 2]
            /\ chPc' = [chPc EXCEPT ![c] = "invoking"]
            /\ UNCHANGED chResult
       ELSE /\ chResult' = [chResult EXCEPT ![c] = Throw(RetrievalError)]
            /\ chPc' = [chPc EXCEPT ![c] = "done"]
            /\ UNCHANGED <<chDocs, chCalls>>
    /\ UNCHANGED <<sessionCache, jobs, buildOrder, upVars, fbVars, chMessage, chStore,
                   chLlm, chResponse>>
    /\ UNCHANGED uiVars

\* llm.invoke resolves to response
InvokeResolve(c, response) ==
    /\ chPc[c] = "invoking"
    /\ jobs = <<>>
    /\ chResponse' = [chResponse EXCEPT ![c] = response]
    /\ chResult' = [chResult EXCEPT ![c] = Normalize(response)]
    /\ chPc' = [chPc EXCEPT ![c] = "done"]
    /\ UNCHANGED <<sessionCache, jobs, buildOrder, upVars, fbVars, chMessage, chStore,
                   chLlm, chDocs, chCalls>>
    /\ UNCHANGED uiVars

\* llm.invoke rejects
InvokeReject(c) ==
    /\ chPc[c] = "invoking"
    /\ jobs = <<>>
    /\ chResult' = [chResult EXCEPT ![c] = Throw(ModelError)]
    /\ chPc' = [chPc EXCEPT ![c] = "done"]
    /\ UNCHANGED <<sessionCache, jobs, buildOrder, upVars, fbVars, chMessage, chStore,
                   chLlm, chDocs, chResponse, chCalls>>
    /\ UNCHANGED uiVars

Next ==
    \/ \E u \in Uploads, file \in FileTypes \cup {NoFile} : StartUpload(u, file)
    \/ \E u \in Uploads, text \in Texts : ExtractPlain(u, text)
    \/ \E u \in Uploads, out \in MammothOutcomes : ExtractDocx(u, out)
    \/ \E u \in Uploads : ExtractUnsupported(u)
    \/ \E u \in Uploads, out \in PrimaryOutcomes, ctorThrows \in BOOLEAN :
          PdfParse(u, out, ctorThrows)
    \/ \E u \in Uploads, pdfData \in ReadyData : ParserDataReady(u, pdfData)
    \/ \E u \in Uploads, parserError \in ParserErrors : ParserDataError(u, parserError)
    \/ \E u \in Uploads : TimerFire(u)
    \/ \E u \in Uploads, ok \in BOOLEAN : AgentSettle(u, ok)
    \/ \E u \in Uploads, ok \in BOOLEAN : BuildSettle(u, ok)
    \/ RunJob
    \/ \E c \in Chats, message \in Questions : StartChat(c, message)
    \/ \E c \in Chats, ok \in BOOLEAN : RetrieveSettle(c, ok)
    \/ \E c \in Chats, response \in Responses : InvokeResolve(c, response)
    \/ \E c \in Chats : InvokeReject(c)

Spec == Init /\ [][Next]_vars

\* the event loop keeps running: queued continuations run and an armed timer
\* fires unless it is cleared
FairSpec ==
    /\ Spec
    /\ WF_vars(RunJob)
    /\ \A u \in Uploads : WF_vars(TimerFire(u))

\* ----------------------------------------------------------------- claims
\* the upload has handed its chunks on and has not finished yet
Chunked(u) == upPc[u] \in {"createAgent", "buildStore", "queued"}

Done(u) == upPc[u] = "done"

Succeeded(u) == upResult[u] = Return(SuccessMsg)

\* a failure string: a returned string other than the success string
Failed(u) == upResult[u].kind = "return" /\ upResult[u] # Return(SuccessMsg)

\* C1: the chunks handed to the vector store, concatenated in order, are a
\* prefix of the extracted text, and equal to it when nothing was truncated,
\* also for a text that contains line terminators.
C1_ChunksPartitionText ==
    \A u \in Uploads :
        Chunked(u) =>
            /\ IsPrefix(Concat(upChunks[u]), upText[u])
            /\ Len(AllChunks(upText[u])) <= MaxChunks => Concat(upChunks[u]) = upText[u]

\* C2: for PDF, plain text and DOCX, an upload whose extracted text is empty
\* or all white space never returns the success string and never overwrites
\* sessionCache; once it is done it has returned a failure string.
C2_BlankTextFails ==
    \A u \in Uploads :
        upType[u] \in {PdfType, TextType, DocxType} /\ upYield[u].by # "none"
            /\ upYield[u].blank =>
                /\ ~Succeeded(u)
                /\ ~upWrote[u]
                /\ Done(u) => Failed(u)

\* C3: a chat turn that starts while no upload has returned the success
\* string returns the guidance string at once, without calling the retriever
\* or the model, whatever uploads and chat turns came before and whatever the
\* question.
C3_GuidanceBeforeAnyUpload ==
    [][\A c \in Chats :
          (chPc[c] = "idle" /\ chPc'[c] # "idle" /\ \A u \in Uploads : ~Succeeded(u)) =>
              /\ chPc'[c] = "done"
              /\ chResult'[c] = Return(GuidanceMsg)
              /\ chCalls'[c] = 0]_vars

\* a chat turn got the guidance string after an upload had failed
C3_Witness ==
    \E c \in Chats, u \in Uploads :
        /\ chPc[c] = "done" /\ chResult[c] = Return(GuidanceMsg) /\ chCalls[c] = 0
        /\ Done(u) /\ Failed(u)
        /\ \A v \in Uploads : ~Succeeded(v)

\* no upload is in flight
Quiet == jobs = <<>> /\ \A u \in Uploads : upPc[u] \in {"idle", "done"}

Last(q) == q[Len(q)]

\* the cache as written by upload u
WrittenBy(u) ==
    /\ sessionCache.vectorStore = [owner |-> u, docs |-> StoreDocs(upChunks[u])]
    /\ sessionCache.llm = u

\* C4: once all overlapping uploads have returned, sessionCache holds the
\* index and model handle of the successful upload whose vector store build
\* completed last, and a chat turn started then takes that upload's index.
C4_LastBuildWins ==
    /\ [](Quiet /\ buildOrder # <<>> => WrittenBy(Last(buildOrder)))
    /\ [][\A c \in Chats :
            (chPc[c] = "idle" /\ chPc'[c] # "idle" /\ Quiet /\ buildOrder # <<>>) =>
                /\ chPc'[c] = "retrieving"
                /\ chStore'[c] = [owner |-> Last(buildOrder),
                                  docs |-> StoreDocs(upChunks[Last(buildOrder)])]
                /\ chLlm'[c] = Last(buildOrder)]_vars

\* two uploads succeeded, the higher-numbered one built first, and a chat turn
\* started afterwards uses the index of the one that built last
C4_Witness ==
    /\ \A u \in Uploads : Done(u)
    /\ Len(buildOrder) >= 2
    /\ buildOrder[Len(buildOrder) - 1] > Last(buildOrder)
    /\ jobs = <<>>
    /\ WrittenBy(Last(buildOrder))
    /\ \E c \in Chats : chPc[c] # "idle" /\ chStore[c].owner = Last(buildOrder)

\* C5: handlePdfUpload never throws; a finished call has returned a string,
\* and that string is the success string exactly when the call overwrote
\* sessionCache.
C5_UploadNeverThrows ==
    \A u \in Uploads :
        /\ upResult[u].kind # "throw"
        /\ Done(u) => upResult[u].kind = "return"
        /\ Done(u) => (Succeeded(u) <=> upWrote[u])
        /\ upWrote[u] => Done(u)

\* one upload has failed on the fallback timeout without touching the cache
\* and another has succeeded and written it
C5_Witness ==
    \E u, v \in Uploads :
        /\ Done(u) /\ Done(v)
        /\ upResult[u] = Return(ExtractFailPrefix \o TimeoutMsg) /\ ~upWrote[u]
        /\ Succeeded(v) /\ upWrote[v]

\* llm.invoke resolved for this chat turn
Answered(c) == chPc[c] = "done" /\ chCalls[c] = 2 /\ chResult[c] # Throw(ModelError)

\* C6: with a non-empty session chatWithBot never raises because of the shape
\* of the model response (string, object with string, array, missing or other
\* content, null, undefined): only a collaborator's rejection is raised.
C6_ChatNeverRaisesOnShape ==
    \A c \in Chats :
        /\ chResult[c].kind = "throw" => chResult[c].val \in {RetrievalError, ModelError}
        /\ Answered(c) => chResult[c].kind = "return"

\* normalising the response yields no text
NoText(response) ==
    /\ response.t = "object"
    /\ \/ response.content.t = "string" /\ response.content.s = <<>>
       \/ /\ response.content.t = "array"
          /\ \A i \in 1..Len(response.content.parts) :
                PartString(response.content.parts[i]) = <<>>
       \/ response.content.t = "undefined"

\* C7: when normalising the model response yields no text (empty string
\* content, an array without text parts, absent content) chatWithBot returns
\* a string representation of the whole response.
C7_FallbackToRawResponse ==
    \A c \in Chats :
        Answered(c) /\ NoText(chResponse[c]) =>
            chResult[c] \in { Return(JSONStringify(chResponse[c])),
                              Return(<<"[object Object]">>) }

\* the message of the primary parser's error indicates password or encryption
IndicatesEncryption(errorMessage) ==
    Includes(errorMessage, "password") \/ Includes(errorMessage, "encrypted")

\* C8: when pdf-parse fails with a message that indicates password protection
\* or encryption, also one that mentions XRef, the fallback parser is never
\* started and the upload fails with the encrypted-PDF error.
C8_EncryptedNotRetried ==
    \A u \in Uploads :
        IndicatesEncryption(upErr[u]) =>
            /\ fbTimer[u] = "none"
            /\ Done(u) => upResult[u] = Return(ExtractFailPrefix \o EncryptedMsg)

\* C9: a PDF parse path (pdf-parse or the pdf2json fallback) that yields empty
\* or all-white-space text makes the upload fail with the empty-extraction
\* reason, not with the corrupt-file error, and on the primary path without
\* starting the fallback parser.
C9_EmptyPdfReason ==
    \A u \in Uploads :
        upYield[u].by \in {"primary", "fallback"} /\ upYield[u].blank /\ Done(u) =>
            /\ upResult[u] = Return(ExtractFailPrefix \o EmptyPdfMsg)
            /\ ~Includes(upResult[u].val, CorruptPrefix[1])
            /\ upYield[u].by = "primary" => fbTimer[u] = "none"

TimeoutFailure == Return(ExtractFailPrefix \o TimeoutMsg)

\* C10: after an XRef failure of pdf-parse the armed timer is cleared by a
\* parser event or fires; once it has fired the upload has returned a failure
\* string containing "timeout" and has not written sessionCache; the fallback
\* promise never changes once settled, and a parser event after the timeout
\* changes neither a returned string nor sessionCache.
C10_FallbackTimeout ==
    /\ \A u \in Uploads :
          (fbTimer[u] = "armed") ~>
              (fbTimer[u] = "cleared" \/ (Done(u) /\ upResult[u] = TimeoutFailure))
    /\ [](\A u \in Uploads :
            fbTimer[u] = "fired" =>
                /\ Done(u) /\ upResult[u] = TimeoutFailure
                /\ Includes(upResult[u].val, "timeout")
                /\ fbPromise[u] = Throw(TimeoutMsg)
                /\ ~upWrote[u])
    /\ [][\A u \in Uploads :
            /\ fbPromise[u].kind # "pending" => fbPromise'[u] = fbPromise[u]
            /\ (fbTimer[u] = "fired" /\ fbEvents'[u] # fbEvents[u]) =>
                  /\ upResult' = upResult
                  /\ sessionCache' = sessionCache]_vars

\* the timer fired, the upload returned the timeout failure, and a parser
\* event arrived afterwards
C10_Witness ==
    \E u \in Uploads :
        /\ fbTimer[u] = "fired"
        /\ fbEvents[u] >= 1
        /\ Done(u) /\ upResult[u] = TimeoutFailure

\* ------------------------------------------------- long plain-text documents
\* the text of n characters c
Rep(c, n) == [i \in 1..n |-> c]

\* lengths around the chunk size and around the chunk limit
DocLengths == {0, 1, 999, 1000, 1001, 1999, 2000, 2001, 2500, 3000, 3001, 4000,
               49000, 49001, 50000, 50001, 60000}

\* plain-text documents: without line terminators, and with one or two
DocTexts ==
    { Rep("a", n) : n \in DocLengths }
    \cup { Rep("a", n) \o <<"\n">> \o Rep("a", m) : n \in {0, 1000, 1500}, m \in {0, 500, 1500} }
    \cup { Rep("a", 2) \o <<"\n">> \o Rep("a", 2) \o <<"\n">> \o Rep(" ", 2) }

\* one upload of a plain-text document by handlePdfUpload call 1, and one chat
\* turn
DocNext ==
    \/ StartUpload(1, TextType)
    \/ \E text \in DocTexts : ExtractPlain(1, text)
    \/ \E ok \in BOOLEAN : AgentSettle(1, ok)
    \/ \E ok \in BOOLEAN : BuildSettle(1, ok)
    \/ RunJob
    \/ \E message \in Questions : StartChat(1, message)
    \/ \E ok \in BOOLEAN : RetrieveSettle(1, ok)
    \/ \E response \in Responses : InvokeResolve(1, response)
    \/ InvokeReject(1)

SpecDoc == Init /\ [][DocNext]_vars

\* ceil(n / d)
CeilDiv(n, d) == (n + d - 1) \div d

\* the upload has computed its chunks
HasChunks(u) == Chunked(u) \/ (Done(u) /\ upYield[u].by # "none")

\* C11: a plain-text document of L characters gives min(50, ceil(L/1000))
\* chunks, all but the last of exactly 1000 characters, which together are
\* the first min(L, 50000) characters of the document.
C11_PlainTextChunkCount ==
    \A u \in Uploads :
        upType[u] = TextType /\ HasChunks(u) =>
            /\ Len(upChunks[u]) = Min(MaxChunks, CeilDiv(Len(upText[u]), ChunkSize))
            /\ \A i \in 1..(Len(upChunks[u]) - 1) : Len(upChunks[u][i]) = ChunkSize
            /\ Concat(upChunks[u])
                  = SubSeq(upText[u], 1, Min(Len(upText[u]), MaxChunks * ChunkSize))

\* C12: every chunk handed to the vector store has at most 1000 characters,
\* at most 50 chunks are handed over, and the document stored for chunk i
\* carries the metadata id i (counted from 0) of its position.
C12_ChunkBounds ==
    /\ \A u \in Uploads :
          HasChunks(u) =>
              /\ Len(upChunks[u]) <= MaxChunks
              /\ \A i \in 1..Len(upChunks[u]) :
                    Len(upChunks[u][i]) >= 1 /\ Len(upChunks[u][i]) <= ChunkSize
    /\ LET store == sessionCache.vectorStore
       IN store.owner # 0 =>
              /\ Len(store.docs) = Len(upChunks[store.owner])
              /\ Len(store.docs) <= MaxChunks
              /\ \A i \in 1..Len(store.docs) :
                    /\ store.docs[i].id = i - 1
                    /\ store.docs[i].pageContent = upChunks[store.owner][i]
                    /\ Len(store.docs[i].pageContent) <= ChunkSize

\* a document of more than 50000 characters has been indexed: 50 chunks of
\* 1000 characters, the last with id 49
C12_Witness ==
    LET store == sessionCache.vectorStore
    IN /\ store.owner # 0
       /\ Len(upText[store.owner]) > MaxChunks * ChunkSize
       /\ Len(store.docs) = MaxChunks
       /\ Len(store.docs[MaxChunks].pageContent) = ChunkSize
       /\ store.docs[MaxChunks].id = MaxChunks - 1

\* C13: an upload whose file type is none of PDF, plain text and DOCX takes
\* no parser path (no text produced, no parser error, no fallback), hands no
\* chunks to an agent or vector store, writes no cache, and ends with the
\* unsupported-type failure.
C13_UnsupportedTypeFailsFirst ==
    \A u \in Uploads :
        upType[u] \notin {NoFile, PdfType, TextType, DocxType} =>
            /\ upPc[u] \in {"extract", "done"}
            /\ upYield[u] = NoYield
            /\ upErr[u] = <<>>
            /\ fbTimer[u] = "none" /\ fbEvents[u] = 0 /\ fbPromise[u] = Pending
            /\ upChunks[u] = <<>>
            /\ ~upWrote[u]
            /\ sessionCache.vectorStore.owner # u
            /\ \A i \in 1..Len(jobs) : jobs[i].u # u
            /\ \A i \in 1..Len(buildOrder) : buildOrder[i] # u
            /\ Done(u) => upResult[u] = Return(ExtractFailPrefix \o UnsupportedMsg)

\* an upload of an unsupported type has returned the unsupported-type failure
C13_Witness ==
    \E u \in Uploads :
        /\ upType[u] = OtherType
        /\ Done(u)
        /\ upResult[u] = Return(ExtractFailPrefix \o UnsupportedMsg)

\* the part is a string or an object with a text field
IsTextBearing(part) == part.t \in {"string", "text"}

\* the texts of the text-bearing parts, in order
TextsOf(parts) ==
    LET kept == SelectSeq(parts, IsTextBearing)
    IN [i \in 1..Len(kept) |-> kept[i].s]

\* C14: for a response whose content is a sequence of parts the answer is the
\* concatenation, in order and without separator, of the parts that are
\* strings or carry a text field; other parts add nothing.
C14_PartsConcatenated ==
    \A c \in Chats :
        Answered(c) /\ chResponse[c].t = "object" /\ chResponse[c].content.t = "array" =>
            chResult[c] = Return(Concat(TextsOf(chResponse[c].content.parts)))

\* a response of a string part, an image part, a text part and a null part
\* was answered with the two texts joined
C14_Witness ==
    \E c \in Chats :
        /\ Answered(c)
        /\ chResponse[c] = ObjResponse(ArrContent(
              << StrPart(<<"a">>), ImagePart, TextPart(<<"b">>), NullPart >>))
        /\ chResult[c] = Return(<<"a", "b">>)

\* similarity of a document to the message of chat turn c
SimTo(c, doc) == Similarity(Embed(doc.pageContent), Embed(chMessage[c]))

SessionWhole(cache) ==
    \/ cache = EmptyCache
    \/ \E u \in Uploads :
          /\ cache = CacheAfterUpload(EmptyCache, u, upChunks[u])
          /\ upResult[u] = Return(SuccessMsg)

\* C16: the step in which a handlePdfUpload call returns a failure string
\* leaves sessionCache as it was, the session never holds anything but the
\* complete index of a successful upload, and a non-empty session never
\* becomes empty again.
C16_FailureLeavesSession ==
    /\ [](SessionWhole(sessionCache))
    /\ [][ /\ \A u \in Uploads :
                (~Done(u) /\ upPc'[u] = "done" /\ upResult'[u].kind = "return"
                          /\ upResult'[u] # Return(SuccessMsg))
                    => sessionCache' = sessionCache
           /\ ~CacheEmpty(sessionCache) => ~CacheEmpty(sessionCache')
           /\ \A u \in Uploads : Done(u) /\ Failed(u) => ~upWrote'[u] ]_vars

\* an upload failed at the vector store while the session holds the index of
\* another upload
C16_Witness ==
    \E u, v \in Uploads :
        /\ u # v
        /\ Done(u) /\ upResult[u] = ProcessCatch(<<"embedding failed">>)
        /\ Done(v) /\ Succeeded(v) /\ WrittenBy(v)

\* chat turn c has read sessionCache
Snapshotted(c) == chCalls[c] >= 1

\* C17: a chat turn that passed the guard holds the vector store and the
\* model handle of one upload, keeps both until it returns whatever uploads
\* complete meanwhile, retrieves from the store it holds, and sessionCache
\* is always empty or fully written by a single upload.
C17_TurnUsesOneUpload ==
    /\ [](\A c \in Chats :
             /\ Snapshotted(c) =>
                   /\ chStore[c].owner # 0
                   /\ chStore[c].owner = chLlm[c]
                   /\ chStore[c].docs = StoreDocs(upChunks[chLlm[c]])
             /\ chCalls[c] = 2 => chDocs[c] = Retrieve(chStore[c], chMessage[c]))
    /\ [](\/ sessionCache = EmptyCache
          \/ \E u \in Uploads :
                /\ sessionCache.vectorStore.owner = u
                /\ sessionCache.chain = u
                /\ sessionCache.embeddings = u
                /\ sessionCache.llm = u)
    /\ [][\A c \in Chats :
             Snapshotted(c) => chStore'[c] = chStore[c] /\ chLlm'[c] = chLlm[c]]_vars

\* a turn retrieved from the index it took at its start although another
\* upload has replaced the session's index since
C17_Witness ==
    \E c \in Chats :
        /\ chCalls[c] = 2
        /\ sessionCache.vectorStore.owner # chStore[c].owner
        /\ sessionCache.vectorStore.docs # chStore[c].docs
        /\ chDocs[c] # <<>>

\* ------------------------------------------------------------------- page
homeVars == <<uploadedDocument, chatStarted>>

uploadVars == <<uploadedFile, isUploading, uploadError, formFile>>

chatVars == <<messages, inputValue, isLoading, chatInstance, pendingChats>>

\* handleDrop and handleChange: handleFile(file), while DocumentUpload is shown
HandleFile(file) ==
    /\ ~chatStarted
    /\ IF FileType(file) \notin AllowedTypes \/ FileSize(file) > MaxFileSize
       THEN UNCHANGED <<uploadedFile, uploadedDocument>>
       ELSE /\ uploadedFile' = file
            /\ uploadedDocument' = file
    /\ UNCHANGED <<chatStarted, isUploading, uploadError, formFile, startedBy, chatVars,
                   serverVars>>

\* a click on Start Chat: startChat up to `await handlePdfUpload(formData)`
StartChatClick ==
    /\ ~chatStarted
    /\ uploadedFile # NoFile
    /\ ~isUploading
    /\ isUploading' = TRUE
    /\ uploadError' = NoError
    /\ formFile' = uploadedFile
    /\ UNCHANGED <<homeVars, uploadedFile, startedBy, chatVars, serverVars>>

\* handlePdfUpload settles: the rest of startChat.  On the success string
\* Home shows ChatInterface, a new instance, in place of DocumentUpload
UploadSettle(result) ==
    /\ formFile # NoFile
    /\ formFile' = NoFile
    /\ isUploading' = FALSE
    /\ IF result = Return(SuccessMsg)
       THEN /\ chatStarted' = TRUE
            /\ startedBy' = formFile
            /\ uploadedFile' = NoFile
            /\ uploadError' = NoError
            /\ chatInstance' = chatInstance + 1
            /\ messages' = <<Greeting(uploadedDocument)>>
            /\ inputValue' = <<>>
            /\ isLoading' = FALSE
       ELSE /\ uploadError' = IF result.kind = "throw" THEN UploadFailedMsg
                              ELSE IF result.val = <<>> THEN ProcessFallbackMsg
                              ELSE result.val
            /\ UNCHANGED <<chatStarted, startedBy, uploadedFile, chatInstance, messages,
                           inputValue, isLoading>>
    /\ UNCHANGED <<uploadedDocument, pendingChats, serverVars>>

\* onChange of the input
TypeInput(value) ==
    /\ chatStarted
    /\ inputValue' = value
    /\ UNCHANGED <<homeVars, uploadVars, startedBy, messages, isLoading, chatInstance,
                   pendingChats, serverVars>>

\* variant: a submission is accepted while a call is awaited
HandleSubmitWhileLoading ==
    /\ chatStarted
    /\ Len(messages) < MaxMessages
    /\ IF Trim(inputValue) = <<>>
       THEN UNCHANGED <<messages, inputValue, isLoading, pendingChats>>
       ELSE /\ messages' = Append(messages, [role |-> "user", content |-> inputValue])
            /\ inputValue' = <<>>
            /\ isLoading' = TRUE
            /\ pendingChats' = [pendingChats EXCEPT ![chatInstance] = @ + 1]
    /\ UNCHANGED <<homeVars, uploadVars, startedBy, chatInstance, serverVars>>

\* the form is submitted or Enter is pressed: handleSubmit up to
\* `await chatWithBot(question)`
HandleSubmit ==
    /\ chatStarted
    /\ Len(messages) < MaxMessages
    /\ IF Trim(inputValue) = <<>> \/ isLoading
       THEN UNCHANGED <<messages, inputValue, isLoading, pendingChats>>
       ELSE /\ messages' = Append(messages, [role |-> "user", content |-> inputValue])
            /\ inputValue' = <<>>
            /\ isLoading' = TRUE
            /\ pendingChats' = [pendingChats EXCEPT ![chatInstance] = @ + 1]
    /\ UNCHANGED <<homeVars, uploadVars, startedBy, chatInstance, serverVars>>

\* a chatWithBot call of instance i settles: the rest of handleSubmit.  The
\* state updates of an instance that is no longer shown have no effect
ChatSettle(i, response) ==
    /\ pendingChats[i] > 0
    /\ pendingChats' = [pendingChats EXCEPT ![i] = @ - 1]
    /\ IF chatStarted /\ i = chatInstance
       THEN /\ messages' = Append(messages,
                              [role |-> "assistant",
                               content |-> IF response.kind = "return"
                                           THEN response.val ELSE ApologyMsg])
            /\ isLoading' = FALSE
       ELSE UNCHANGED <<messages, isLoading>>
    /\ UNCHANGED <<homeVars, uploadVars, startedBy, inputValue, chatInstance, serverVars>>

\* a click on the new chat button: Home shows DocumentUpload, a new instance,
\* in place of ChatInterface
NewChat ==
    /\ chatStarted
    /\ chatInstance < MaxMounts
    /\ chatStarted' = FALSE
    /\ messages' = <<>>
    /\ inputValue' = <<>>
    /\ isLoading' = FALSE
    /\ UNCHANGED <<uploadedDocument, uploadVars, startedBy, chatInstance, pendingChats,
                   serverVars>>

PageNext ==
    \/ \E file \in Files : HandleFile(file)
    \/ StartChatClick
    \/ \E result \in UploadOutcomes : UploadSettle(result)
    \/ \E value \in Inputs : TypeInput(value)
    \/ HandleSubmit
    \/ \E i \in Instances, response \in ChatOutcomes : ChatSettle(i, response)
    \/ NewChat

SpecPage == Init /\ [][PageNext]_vars

\* every chatWithBot call settles
FairSpecPage ==
    /\ SpecPage
    /\ \A i \in Instances : WF_vars(\E response \in ChatOutcomes : ChatSettle(i, response))

\* C18: while the chat screen is shown, the document it names is the file
\* sent in the handlePdfUpload call whose success string started the chat.
C18_ChatNamesIndexedFile ==
    chatStarted =>
        /\ uploadedDocument = startedBy
        /\ messages[1] = Greeting(startedBy)

\* chatWithBot calls in flight, of all instances
RECURSIVE SumTo(_, _)
SumTo(f, n) == IF n = 0 THEN 0 ELSE f[n] + SumTo(f, n - 1)

InFlight == SumTo(pendingChats, MaxMounts)

\* C19 as stated: at most one chatWithBot call is in flight at any time.
C19_OneCallInFlight == InFlight <= 1

\* the messages after the greeting alternate user, assistant
Alternates(msgs) ==
    /\ msgs[1].role = "assistant"
    /\ \A k \in 2..Len(msgs) : msgs[k].role = IF k % 2 = 0 THEN "user" ELSE "assistant"

\* C19, amended: of the ChatInterface instance that is shown at most one
\* chatWithBot call is in flight, and of any instance at most one; a
\* submission is accepted only with non-blank input and while no call of the
\* instance is awaited; after the greeting the messages alternate user,
\* assistant, the last one being a user message exactly while isLoading; and
\* isLoading returns to false.
C19_OneCallPerInstance ==
    /\ [](\A i \in Instances : pendingChats[i] <= 1)
    /\ [](chatStarted =>
             /\ isLoading <=> pendingChats[chatInstance] = 1
             /\ Alternates(messages)
             /\ isLoading <=> messages[Len(messages)].role = "user")
    /\ [][\A i \in Instances :
             pendingChats'[i] > pendingChats[i] =>
                /\ chatStarted /\ i = chatInstance
                /\ ~isLoading /\ Trim(inputValue) # <<>>
                /\ messages' = Append(messages, [role |-> "user", content |-> inputValue])
                /\ isLoading']_vars
    /\ (isLoading ~> ~isLoading)

\* the instance shown has its answer while a call of an earlier instance is
\* still in flight
C19_Witness ==
    /\ chatStarted
    /\ ~isLoading
    /\ Len(messages) >= 3
    /\ messages[Len(messages)].content = ApologyMsg
    /\ \E i \in Instances : i # chatInstance /\ pendingChats[i] = 1

====
